---- MODULE Spec2Model ----
(***************************************************************************)
(* The habit/reward ledger of the bot: database.py's Database operations   *)
(* on one user's row and the bot.py handlers that call them.               *)
(*                                                                         *)
(* Dates are day numbers (1, 2, ...); date.isoformat() is injective and    *)
(* date.fromisoformat() inverts it, and the code only compares the strings *)
(* for equality, so a stored ISO string is modelled by its day number.     *)
(* A NULL date column is NoDate.                                           *)
(*                                                                         *)
(* database.py reads the calendar with date.today() (the server's local    *)
(* date) and bot.py with _today_minsk() (Europe/Minsk).  On a server that  *)
(* runs on UTC the first lags the second during the first three hours of   *)
(* each Minsk day; server_behind says that the model is in that window.    *)
(***************************************************************************)
EXTENDS Integers, Sequences, FiniteSets, TLC

VARIABLES
    minsk_today,    \* the calendar date in Europe/Minsk, a day number
    server_tz,      \* the server's time zone, fixed at deployment
    CATEGORIES,     \* config.CATEGORIES, loaded at start: category -> challenges
    server_behind,  \* TRUE while date.today() is still the previous Minsk date
    user,           \* the row of the users table, or NoUser
    history,        \* the rows of the history table of the user, oldest first
    recent,         \* context.user_data['recent_challenges_<category>']
    result,         \* what the last database call returned to its handler
    n_success,      \* successful complete_challenge calls on the current row
    grants,         \* coin grants the administrator has made
    last_coinflip_date,    \* the row's last_coinflip_date column, or NoDate
    coinflip_key,          \* the key under which get_user returns that column
    coinflip_bet,          \* context.user_data['coinflip_bet'], or NoBet
    coinflip_in_progress,  \* whether the user is in _coinflip_in_progress
    rounds,                \* each coinflip_choice_handler invocation's position
    calls,                 \* each Database call between its get_user and its UPDATE
    awaiting,              \* the awaiting_* keys of each sender's context.user_data
    moderation             \* the report row, the warnings column, the messages sent

\* the state of the wager game
wager_vars == <<last_coinflip_date, coinflip_key, coinflip_bet, coinflip_in_progress,
                rounds>>

\* the state of the administrator's panel and of the reports
admin_vars == <<awaiting, moderation>>

vars == <<minsk_today, server_tz, CATEGORIES, server_behind, user, history, recent,
          result, n_success, grants, last_coinflip_date, coinflip_key, coinflip_bet,
          coinflip_in_progress, rounds, calls, awaiting, moderation>>

----------------------------------------------------------------------------
(* Bounds of the model *)

MaxDay == 3
MaxRecords == 2
MaxModeration == 1
MaxGrants == 1
BoostDay == 12
MaxTasks == 2
WagerDay == 2

----------------------------------------------------------------------------
(* Static configuration and values *)

NoDate == 0
NoUser == [exists |-> FALSE]
NoResult == [op |-> "none", success |-> FALSE, message |-> "none"]
NoText == "None"

\* config.ADMIN_ID, and the ids updates arrive from: the administrator and
\* the user whose row the model follows
ADMIN_ID == 1
Owner == ADMIN_ID + 1
Senders == {ADMIN_ID, Owner}

\* the awaiting_* keys of a context.user_data that holds none of them
NoAwaiting ==
    [awaiting_report |-> FALSE, awaiting_broadcast |-> NoText,
     awaiting_delete_user |-> FALSE, awaiting_give_coins |-> FALSE,
     awaiting_reply |-> FALSE, awaiting_warning |-> FALSE]

\* no report filed, no warning on the row, nothing sent to the users
NoModeration == [status |-> NoText, warnings |-> 0, sent |-> 0]

\* is_user_banned: three warnings or more
BanAt == 3

\* catalogs of categories the process can be started with
OneCategory == [c \in {"body"} |-> <<"b1">>]
TwoCategories == [c \in {"body", "mind"} |-> IF c = "body" THEN <<"b1", "b2">> ELSE <<"m1">>]
\* a category of six challenges, one more than the window holds, beside a
\* category of two
LargeCategory ==
    [c \in {"body", "mind"} |->
        IF c = "body" THEN <<"b1", "b2", "b3", "b4", "b5", "b6">> ELSE <<"m1", "m2">>]

Challenges(category) == CATEGORIES[category]

\* the achievement catalog: id, condition, value, reward
ACHIEVEMENTS ==
    << [id |-> "first_step", condition |-> "total_completed", category |-> NoText,
        value |-> 1, reward |-> 10],
       [id |-> "streak_3", condition |-> "streak", category |-> NoText,
        value |-> 3, reward |-> 20],
       [id |-> "explorer", condition |-> "all_categories", category |-> NoText,
        value |-> 2, reward |-> 15],
       [id |-> "body_2", condition |-> "category_", category |-> "body",
        value |-> 2, reward |-> 10] >>

\* the milestone table: a message for some values of the streak and of the total
MILESTONES ==
    [streak |-> [n \in {2} |-> "streak_milestone_2"],
     total |-> [n \in {3} |-> "total_milestone_3"]]

\* the shop's buttons with the cost and the days buy_handler passes for each
ShopItems == {"buy_freeze_1", "buy_freeze_3", "buy_double"}

Price(item) == IF item = "buy_freeze_3" THEN 120 ELSE 50

Days(item) == IF item = "buy_freeze_3" THEN 3 ELSE 1

\* buy_double_coins extends by a fixed window
DoubleDays == 7

\* amounts the administrator types after "USER_ID"
GrantAmounts == {100, -50}

----------------------------------------------------------------------------
(* The two calendars *)

today_minsk == minsk_today

date_today == IF server_behind THEN minsk_today - 1 ELSE minsk_today

Max(a, b) == IF a >= b THEN a ELSE b

SeqToSet(s) == {s[i] : i \in 1..Len(s)}

----------------------------------------------------------------------------
(* Database: the users row *)

\* add_user: INSERT ... ON CONFLICT DO NOTHING with the column defaults
NewRow ==
    [exists |-> TRUE,
     streak |-> 0, longest_streak |-> 0, total_completed |-> 0, coins |-> 0,
     last_completed_date |-> NoDate,
     streak_freeze_until |-> NoDate, double_coins_until |-> NoDate,
     current_challenge |-> NoText, current_category |-> NoText,
     achievements |-> <<>>]

\* the INSERT replaces the row that is already there
add_user_replaces(u) == NewRow

\* add_user: INSERT ... ON CONFLICT DO NOTHING, the other columns take the
\* defaults of the users table
add_user(u) == IF u.exists THEN u ELSE NewRow

\* the UPDATE sets the streak back to 0 as well
update_challenge_resets_streak(u, challenge, category) ==
    IF u.exists
    THEN [u EXCEPT !.current_challenge = challenge, !.current_category = category,
                   !.streak = 0]
    ELSE u

\* update_challenge: SET current_challenge, current_category
update_challenge(u, challenge, category) ==
    IF u.exists
    THEN [u EXCEPT !.current_challenge = challenge, !.current_category = category]
    ELSE u

\* add_coins: SET coins = coins + amount, no check of the sign or the balance
add_coins(u, amount) ==
    IF u.exists THEN [u EXCEPT !.coins = @ + amount] ELSE u

\* reset_streak: SET streak = 0
reset_streak(u) ==
    IF u.exists THEN [u EXCEPT !.streak = 0] ELSE u

----------------------------------------------------------------------------
(* Database.complete_challenge *)

\* the gate compares against the wrong day and never fires on the same day
already_completed_today_wrong_day(u, today) == u.last_completed_date = today + 1

\* the day gate: last_completed_date == today
already_completed_today(u, today) == u.last_completed_date = today

\* a freeze / boost column is active: set and not before today (inclusive)
is_active(until, today) == until # NoDate /\ until >= today

\* a gap is treated like a continuation: the streak is never reset
new_streak_never_reset(u, today) ==
    IF u.last_completed_date = NoDate
    THEN 1
    ELSE IF today - u.last_completed_date >= 1
         THEN u.streak + 1
         ELSE 1

\* an active freeze advances the streak instead of only protecting it
new_streak_freeze_advances(u, today) ==
    IF u.last_completed_date = NoDate
    THEN 1
    ELSE IF today - u.last_completed_date = 1
            \/ is_active(u.streak_freeze_until, today)
         THEN u.streak + 1
         ELSE 1

new_streak(u, today) ==
    IF u.last_completed_date = NoDate
    THEN 1
    ELSE IF today - u.last_completed_date = 1
         THEN u.streak + 1
         ELSE IF is_active(u.streak_freeze_until, today)
              THEN u.streak
              ELSE 1

\* the boost has already lapsed on the date stored in double_coins_until
coins_earned_exclusive_expiry(u, today) ==
    IF u.double_coins_until # NoDate /\ u.double_coins_until > today THEN 10 ELSE 5

coins_earned(u, today) ==
    IF is_active(u.double_coins_until, today) THEN 10 ELSE 5

\* the UPDATE without the longest_streak CASE
completed_row_longest_stale(u, today) ==
    [u EXCEPT
        !.streak = new_streak(u, today),
        !.total_completed = @ + 1,
        !.coins = @ + coins_earned(u, today),
        !.last_completed_date = today]

\* the single UPDATE of complete_challenge
completed_row(u, today) ==
    [u EXCEPT
        !.streak = new_streak(u, today),
        !.longest_streak = IF new_streak(u, today) > @ THEN new_streak(u, today) ELSE @,
        !.total_completed = @ + 1,
        !.coins = @ + coins_earned(u, today),
        !.last_completed_date = today]

\* the INSERT INTO history of complete_challenge
history_row(u) ==
    [category |-> u.current_category, challenge |-> u.current_challenge]

\* where the store may raise during complete_challenge: nowhere, in get_user
\* (before the try block: the exception leaves the method), in the UPDATE or
\* the INSERT (rollback), in the SELECT that follows the commit (the rollback
\* of the except clause finds nothing to undo)
CompleteFaults == {"none", "get_user", "update", "select"}

\* complete_challenge as a function of the stored state, the server date and
\* the place where the store raises
complete_challenge(u, h, today, fault) ==
    IF fault = "get_user"
    THEN [user |-> u, history |-> h,
          result |-> [op |-> "complete_challenge",
                      success |-> FALSE, message |-> "Raised"]]
    ELSE IF ~u.exists
    THEN [user |-> u, history |-> h,
          result |-> [op |-> "complete_challenge",
                      success |-> FALSE, message |-> "UserNotFound"]]
    ELSE IF already_completed_today(u, today)
    THEN [user |-> u, history |-> h,
          result |-> [op |-> "complete_challenge",
                      success |-> FALSE, message |-> "AlreadyCompletedToday"]]
    ELSE IF fault = "update"
    THEN [user |-> u, history |-> h,
          result |-> [op |-> "complete_challenge",
                      success |-> FALSE, message |-> "PersistenceFailure"]]
    ELSE IF fault = "select"
    THEN [user |-> completed_row(u, today),
          history |-> Append(h, history_row(u)),
          result |-> [op |-> "complete_challenge",
                      success |-> FALSE, message |-> "PersistenceFailure"]]
    ELSE [user |-> completed_row(u, today),
          history |-> Append(h, history_row(u)),
          result |-> [op |-> "complete_challenge",
                      success |-> TRUE, message |-> "ok",
                      streak |-> completed_row(u, today).streak,
                      total |-> completed_row(u, today).total_completed,
                      coins_earned |-> coins_earned(u, today),
                      total_coins |-> completed_row(u, today).coins]]

----------------------------------------------------------------------------
(* Database.buy_streak_freeze and Database.buy_double_coins *)

\* no stacking: the new expiry always counts from today
stack_base_today(current, today) == today

\* base of the new expiry: the current expiry if it is still active, else today
stack_base(current, today) ==
    IF is_active(current, today) THEN current ELSE today

new_freeze_until(u, today, days) == stack_base(u.streak_freeze_until, today) + days

new_double_until(u, today) == stack_base(u.double_coins_until, today) + DoubleDays

\* only an empty balance is rejected
insufficient_funds_empty_only(u, cost) == u.coins <= 0

insufficient_funds(u, cost) == u.coins < cost

\* the debit without the extension of the freeze
freeze_row_debit_only(u, today, days, cost) ==
    [u EXCEPT !.coins = @ - cost]

\* the single UPDATE of buy_streak_freeze
freeze_row(u, today, days, cost) ==
    [u EXCEPT !.coins = @ - cost,
              !.streak_freeze_until = new_freeze_until(u, today, days)]

\* the single UPDATE of buy_double_coins
double_row(u, today, cost) ==
    [u EXCEPT !.coins = @ - cost,
              !.double_coins_until = new_double_until(u, today)]

buy_streak_freeze(u, today, days, cost, dbfail) ==
    IF ~u.exists
    THEN [user |-> u, result |-> [op |-> "buy_streak_freeze",
                      success |-> FALSE, message |-> "UserNotFound"]]
    ELSE IF insufficient_funds(u, cost)
    THEN [user |-> u, result |-> [op |-> "buy_streak_freeze",
                      success |-> FALSE, message |-> "InsufficientFunds"]]
    ELSE IF dbfail
    THEN [user |-> u, result |-> [op |-> "buy_streak_freeze",
                      success |-> FALSE, message |-> "PersistenceFailure"]]
    ELSE [user |-> freeze_row(u, today, days, cost),
          result |-> [op |-> "buy_streak_freeze",
                      success |-> TRUE, message |-> "ok",
                      freeze_until |-> new_freeze_until(u, today, days)]]

buy_double_coins(u, today, cost, dbfail) ==
    IF ~u.exists
    THEN [user |-> u, result |-> [op |-> "buy_double_coins",
                      success |-> FALSE, message |-> "UserNotFound"]]
    ELSE IF insufficient_funds(u, cost)
    THEN [user |-> u, result |-> [op |-> "buy_double_coins",
                      success |-> FALSE, message |-> "InsufficientFunds"]]
    ELSE IF dbfail
    THEN [user |-> u, result |-> [op |-> "buy_double_coins",
                      success |-> FALSE, message |-> "PersistenceFailure"]]
    ELSE [user |-> double_row(u, today, cost),
          result |-> [op |-> "buy_double_coins",
                      success |-> TRUE, message |-> "ok",
                      double_until |-> new_double_until(u, today)]]

----------------------------------------------------------------------------
(* check_achievements, over the snapshot get_stats returns *)

\* category_counts: completions per category of the history
category_count(h, cat) == Cardinality({i \in 1..Len(h) : h[i].category = cat})

distinct_categories(h) == Cardinality({h[i].category : i \in 1..Len(h)})

earned(a, snap, h) ==
    CASE a.condition = "streak" -> snap.streak >= a.value
      [] a.condition = "total_completed" -> snap.total_completed >= a.value
      [] a.condition = "all_categories" -> distinct_categories(h) >= a.value
      [] a.condition = "category_" -> category_count(h, a.category) >= a.value
      [] OTHER -> FALSE

\* the id is appended without a look at the stored list
add_achievement_unguarded(u, achievement_id) ==
    IF u.exists THEN [u EXCEPT !.achievements = Append(@, achievement_id)] ELSE u

\* add_achievement: append unless the stored list already holds the id
add_achievement(u, achievement_id) ==
    IF u.exists /\ achievement_id \notin SeqToSet(u.achievements)
    THEN [u EXCEPT !.achievements = Append(@, achievement_id)]
    ELSE u

\* the entries of the catalog at which db.add_coins may raise; NoFail: nowhere
NoFail == 0
FailPoints == 0..Len(ACHIEVEMENTS)

\* the loop over the catalog from entry i on: snap is the snapshot the handler
\* read, u the stored row as the loop changes it; add_coins raises for entry
\* fail_at, after add_achievement has committed, and the exception ends the loop
RECURSIVE grant_from(_, _, _, _, _)
grant_from(i, u, snap, h, fail_at) ==
    IF i > Len(ACHIEVEMENTS)
    THEN u
    ELSE LET a == ACHIEVEMENTS[i]
         IN  IF a.id \in SeqToSet(snap.achievements) \/ ~earned(a, snap, h)
             THEN grant_from(i + 1, u, snap, h, fail_at)
             ELSE IF add_achievement(u, a.id) # u
                  THEN IF i = fail_at
                       THEN add_achievement(u, a.id)
                       ELSE grant_from(i + 1, add_coins(add_achievement(u, a.id), a.reward),
                                       snap, h, fail_at)
                  ELSE grant_from(i + 1, u, snap, h, fail_at)

check_achievements(u, snap, h, fail_at) == grant_from(1, u, snap, h, fail_at)

\* the orders in which a dict of the catalog's entries can be traversed: the
\* sequences that name every entry of ACHIEVEMENTS once
CatalogOrders ==
    {o \in [1..Len(ACHIEVEMENTS) -> 1..Len(ACHIEVEMENTS)] :
        \A i, j \in 1..Len(ACHIEVEMENTS) : o[i] = o[j] => i = j}

\* the loop of check_achievements over the catalog taken in the order o, from
\* its k-th entry on; add_coins raises for the catalog entry fail_at
RECURSIVE grant_in_order(_, _, _, _, _, _)
grant_in_order(o, k, u, snap, h, fail_at) ==
    IF k > Len(ACHIEVEMENTS)
    THEN u
    ELSE LET a == ACHIEVEMENTS[o[k]]
         IN  IF a.id \in SeqToSet(snap.achievements) \/ ~earned(a, snap, h)
             THEN grant_in_order(o, k + 1, u, snap, h, fail_at)
             ELSE IF add_achievement(u, a.id) # u
                  THEN IF o[k] = fail_at
                       THEN add_achievement(u, a.id)
                       ELSE grant_in_order(o, k + 1,
                                           add_coins(add_achievement(u, a.id), a.reward),
                                           snap, h, fail_at)
                  ELSE grant_in_order(o, k + 1, u, snap, h, fail_at)

----------------------------------------------------------------------------
(* The scheduler's midnight job *)

\* the job without the test of streak_freeze_until
check_and_reset_streaks_freeze_ignored(u, today_dt) ==
    IF ~u.exists
    THEN u
    ELSE IF u.last_completed_date # today_dt /\ u.last_completed_date # today_dt - 1
         THEN IF u.streak > 0 THEN reset_streak(u) ELSE u
         ELSE u

\* check_and_reset_streaks for the user's row, today_dt being _today_minsk()
check_and_reset_streaks(u, today_dt) ==
    IF ~u.exists
    THEN u
    ELSE IF u.last_completed_date # today_dt /\ u.last_completed_date # today_dt - 1
         THEN IF is_active(u.streak_freeze_until, today_dt)
              THEN u
              ELSE IF u.streak > 0 THEN reset_streak(u) ELSE u
         ELSE u

----------------------------------------------------------------------------
(* The anti-repeat window of category_handler *)

available(category, window) ==
    IF \E i \in 1..Len(Challenges(category)) : Challenges(category)[i] \notin SeqToSet(window)
    THEN {Challenges(category)[i] : i \in
            {j \in 1..Len(Challenges(category)) :
                Challenges(category)[j] \notin SeqToSet(window)}}
    ELSE SeqToSet(Challenges(category))

\* the window the choice is appended to: emptied when it excluded the whole pool
kept_window(category, window) ==
    IF \E i \in 1..Len(Challenges(category)) : Challenges(category)[i] \notin SeqToSet(window)
    THEN window
    ELSE <<>>

\* recent.append(challenge); if len(recent) > 5: recent.pop(0)
push_recent(window, challenge) ==
    IF Len(window) + 1 > 5 THEN Tail(Append(window, challenge)) ELSE Append(window, challenge)

----------------------------------------------------------------------------
(* The wager game: Database.coinflip_start and Database.coinflip_finish, which
   bot.py calls, and the values coinflip_choice_handler computes *)

\* the invocations of coinflip_choice_handler the dispatcher may have in flight
Tasks == 1..MaxTasks

\* None, the value of user_data.get('coinflip_bet') without the key; every
\* integer is a value int() can return, 0 included, so None is an integer that
\* no callback of BetRequests carries
NoBet == -1
\* the smallest and the largest of the four bet buttons 5, 10, 15, 20
Bets == {5, 20}
\* the amounts coinflip_menu_handler makes buttons for
BetMenu == {5, 10, 15, 20}
\* amounts in callback data that match '^coinflip_bet_': a button's, zero, a
\* negative one and one above the menu
BetRequests == {-5, 0, 5, 25}
Choices == {"coinflip_high", "coinflip_low"}
DiceValues == 1..6

\* the name of the column in the users table
ColumnName == "last_coinflip_date"
\* the key bot.py reads from the row get_user returns
HandlerKey == "lastcoinflipdate"

IdleRound == [pc |-> "idle", bet |-> NoBet, choice |-> "none", dice_value |-> 0]
\* an invocation that returns past the finally block
LeavingRoundNoFinally == [pc |-> "idle", bet |-> NoBet, choice |-> "none", dice_value |-> 0]

\* an invocation on its way out: its locals are not read again
LeavingRound == [pc |-> "finally", bet |-> NoBet, choice |-> "none", dice_value |-> 0]

\* user.get('lastcoinflipdate'): None unless the row has a column of that name
user_get_lastcoinflipdate ==
    IF coinflip_key = HandlerKey THEN last_coinflip_date ELSE NoDate

\* the stamp is compared with the wrong day and never found on the day itself
played_today_wrong_day(lock, today) == lock = today + 1

played_today(lock, today) == lock = today

\* start: check the lock and the balance, stamp the lock, in one transaction
coinflip_start(u, lock, bet, today, dbfail) ==
    IF ~u.exists
    THEN [lock |-> lock,
          result |-> [op |-> "coinflip_start", success |-> FALSE,
                      message |-> "UserNotFound"]]
    ELSE IF played_today(lock, today)
    THEN [lock |-> lock,
          result |-> [op |-> "coinflip_start", success |-> FALSE,
                      message |-> "AlreadyPlayedToday"]]
    ELSE IF insufficient_funds(u, bet)
    THEN [lock |-> lock,
          result |-> [op |-> "coinflip_start", success |-> FALSE,
                      message |-> "InsufficientFunds"]]
    ELSE IF dbfail
    THEN [lock |-> lock,
          result |-> [op |-> "coinflip_start", success |-> FALSE,
                      message |-> "PersistenceFailure"]]
    ELSE [lock |-> today,
          result |-> [op |-> "coinflip_start", success |-> TRUE, message |-> "ok"]]

\* the loser is debited twice the bet
settled_coins_double_debit(coins, bet, won) ==
    IF won THEN coins + bet ELSE coins - 2 * bet

\* finish: coins + bet if won, coins - bet if lost, in one UPDATE
settled_coins(coins, bet, won) ==
    IF won THEN coins + bet ELSE coins - bet

coinflip_finish(u, bet, won, dbfail) ==
    IF ~u.exists
    THEN [user |-> u,
          result |-> [op |-> "coinflip_finish", success |-> FALSE,
                      message |-> "UserNotFound"]]
    ELSE IF dbfail
    THEN [user |-> u,
          result |-> [op |-> "coinflip_finish", success |-> FALSE,
                      message |-> "PersistenceFailure"]]
    ELSE [user |-> [u EXCEPT !.coins = settled_coins(@, bet, won)],
          result |-> [op |-> "coinflip_finish", success |-> TRUE, message |-> "ok",
                      new_coins |-> settled_coins(u.coins, bet, won)]]

\* every prediction wins on a 6
wins_on_six(choice, dice_value) ==
    IF choice = "coinflip_high" THEN dice_value > 3 ELSE dice_value <= 3 \/ dice_value = 6

\* won = dice_value > 3 for coinflip_high, dice_value <= 3 otherwise
wins(choice, dice_value) ==
    IF choice = "coinflip_high" THEN dice_value > 3 ELSE dice_value <= 3

----------------------------------------------------------------------------
(* complete_challenge, buy_streak_freeze and buy_double_coins as two store
   accesses each: get_user on a connection of its own, then the UPDATE on a
   second connection, with the Python between them working on what get_user
   returned *)

\* the calls followed statement by statement: the "done" button and the
\* shop's one-day freeze
DbCalls == {"complete_challenge", "buy_freeze_1"}

IdleCall == [pc |-> "idle", op |-> "none", user |-> NoUser, today |-> NoDate]

\* the early returns on the row get_user returned
checks_pass(op, u, today) ==
    /\ u.exists
    /\ IF op = "complete_challenge"
       THEN ~already_completed_today(u, today)
       ELSE ~insufficient_funds(u, Price(op))

\* the call run on the row alone, as when nothing else touches the store
call_alone(op, u, h, today, dbfail) ==
    CASE op = "complete_challenge" ->
            complete_challenge(u, h, today, IF dbfail THEN "update" ELSE "none")
      [] op = "buy_double" ->
            [user |-> buy_double_coins(u, today, Price(op), dbfail).user, history |-> h,
             result |-> buy_double_coins(u, today, Price(op), dbfail).result]
      [] OTHER ->
            [user |-> buy_streak_freeze(u, today, Days(op), Price(op), dbfail).user,
             history |-> h,
             result |-> buy_streak_freeze(u, today, Days(op), Price(op), dbfail).result]

\* the UPDATE statements on the stored row: relative where the SQL is relative
\* (coins, total_completed, the longest_streak CASE), the bound parameters
\* computed from snap, the row get_user returned
update_users(op, stored, snap, today) ==
    CASE op = "complete_challenge" ->
            [stored EXCEPT
                !.streak = new_streak(snap, today),
                !.longest_streak = IF new_streak(snap, today) > @
                                   THEN new_streak(snap, today) ELSE @,
                !.total_completed = @ + 1,
                !.coins = @ + coins_earned(snap, today),
                !.last_completed_date = today]
      [] op = "buy_double" ->
            [stored EXCEPT !.coins = @ - Price(op),
                           !.double_coins_until = new_double_until(snap, today)]
      [] OTHER ->
            [stored EXCEPT !.coins = @ - Price(op),
                           !.streak_freeze_until = new_freeze_until(snap, today, Days(op))]

\* what the call returns after its commit
committed_result(op, stored, snap, today) ==
    CASE op = "complete_challenge" ->
            [op |-> "complete_challenge", success |-> TRUE, message |-> "ok",
             streak |-> stored.streak, total |-> stored.total_completed,
             coins_earned |-> coins_earned(snap, today), total_coins |-> stored.coins]
      [] op = "buy_double" ->
            [op |-> "buy_double_coins", success |-> TRUE, message |-> "ok",
             double_until |-> new_double_until(snap, today)]
      [] OTHER ->
            [op |-> "buy_streak_freeze", success |-> TRUE, message |-> "ok",
             freeze_until |-> new_freeze_until(snap, today, Days(op))]

----------------------------------------------------------------------------
(* Initial state: an empty database, a fresh process *)

InitWith(tz, catalog) ==
    /\ minsk_today = 1
    /\ server_tz = tz
    /\ CATEGORIES = catalog
    /\ server_behind = FALSE
    /\ user = NoUser
    /\ history = <<>>
    /\ recent = [c \in DOMAIN catalog |-> <<>>]
    /\ result = NoResult
    /\ n_success = 0
    /\ grants = 0
    /\ last_coinflip_date = NoDate
    /\ coinflip_bet = NoBet
    /\ coinflip_in_progress = FALSE
    /\ rounds = [t \in Tasks |-> IdleRound]
    /\ calls = [t \in Tasks |-> IdleCall]
    /\ awaiting = [s \in Senders |-> NoAwaiting]
    /\ moderation = NoModeration

\* a server whose local date is the Minsk date
Init == InitWith("Europe/Minsk", OneCategory) /\ coinflip_key = ColumnName

\* the same server started with a catalog of two categories
InitAssign == InitWith("Europe/Minsk", TwoCategories) /\ coinflip_key = ColumnName

InitWindow == InitWith("Europe/Minsk", LargeCategory) /\ coinflip_key = ColumnName

\* a server whose local time zone is Europe/Minsk or UTC
InitServer ==
    /\ \E tz \in {"Europe/Minsk", "UTC"} : InitWith(tz, OneCategory)
    /\ coinflip_key = ColumnName

\* the same server; the row may or may not carry the key the handlers read
InitWager ==
    /\ InitWith("Europe/Minsk", OneCategory)
    /\ coinflip_key \in {ColumnName, HandlerKey}

----------------------------------------------------------------------------
(* Handlers *)

\* the ensure_user decorator in front of /start
ensure_user ==
    /\ user' = add_user(user)
    /\ n_success' = IF user.exists THEN n_success ELSE 0
    /\ result' = NoResult
    /\ UNCHANGED <<wager_vars, calls, admin_vars>>
    /\ UNCHANGED <<minsk_today, server_tz, CATEGORIES, server_behind, history, recent, grants>>

\* category_handler: a category button
category_handler ==
    \E category \in DOMAIN CATEGORIES :
        LET u0 == add_user(user)
            can_complete == u0.last_completed_date # today_minsk
            \* the row has no challenge_date column: the pending challenge is
            \* cleared on every call
            u1 == update_challenge(u0, NoText, NoText)
        IN  /\ n_success' = IF user.exists THEN n_success ELSE 0
            /\ result' = NoResult
            /\ IF ~can_complete
               THEN /\ user' = u1
                    /\ UNCHANGED recent
               ELSE \E challenge \in available(category, recent[category]) :
                      /\ recent' = [recent EXCEPT ![category] =
                            push_recent(kept_window(category, recent[category]), challenge)]
                      /\ user' = update_challenge(u1, challenge, category)
            /\ UNCHANGED <<wager_vars, calls, admin_vars>>
            /\ UNCHANGED <<minsk_today, server_tz, CATEGORIES, server_behind, history, grants>>

\* another_challenge_handler: the "another challenge" button, on the category
\* of the stored assignment
another_challenge_handler ==
    IF ~user.exists \/ user.current_category = NoText
    THEN /\ result' = [op |-> "another", success |-> FALSE, message |-> "ChooseCategory"]
         /\ UNCHANGED <<user, recent>>
         /\ UNCHANGED <<wager_vars, calls, admin_vars>>
         /\ UNCHANGED <<minsk_today, server_tz, CATEGORIES, server_behind, history,
                        n_success, grants>>
    ELSE IF user.last_completed_date = today_minsk
    THEN /\ result' = [op |-> "another", success |-> FALSE,
                       message |-> "AlreadyCompletedToday"]
         /\ UNCHANGED <<user, recent>>
         /\ UNCHANGED <<wager_vars, calls, admin_vars>>
         /\ UNCHANGED <<minsk_today, server_tz, CATEGORIES, server_behind, history,
                        n_success, grants>>
    ELSE LET category == user.current_category
         IN  \E challenge \in available(category, recent[category]) :
               /\ recent' = [recent EXCEPT ![category] =
                     push_recent(kept_window(category, recent[category]), challenge)]
               /\ user' = update_challenge(user, challenge, category)
               /\ result' = [op |-> "another", success |-> TRUE, message |-> "ok"]
               /\ UNCHANGED <<wager_vars, calls, admin_vars>>
               /\ UNCHANGED <<minsk_today, server_tz, CATEGORIES, server_behind, history,
                              n_success, grants>>

\* cancel_report_handler: context.user_data.clear() drops every key of the
\* user's data, the anti-repeat windows and the stored bet among them
cancel_report_handler ==
    \E s \in Senders :
        /\ IF s = Owner
           THEN recent' = [c \in DOMAIN recent |-> <<>>] /\ coinflip_bet' = NoBet
           ELSE UNCHANGED <<recent, coinflip_bet>>
        /\ awaiting' = [awaiting EXCEPT ![s] = NoAwaiting]
        /\ result' = [op |-> "cancel_report", success |-> TRUE, message |-> "ok"]
        /\ UNCHANGED <<minsk_today, server_tz, CATEGORIES, server_behind, user, history,
                       n_success, grants, moderation>>
        /\ UNCHANGED <<calls, last_coinflip_date, coinflip_key, coinflip_in_progress, rounds>>

\* the streak is looked up one too high
check_milestones_next_streak(streak, total) ==
    (IF streak + 1 \in DOMAIN MILESTONES.streak
     THEN <<MILESTONES.streak[streak + 1]>> ELSE <<>>)
    \o (IF total \in DOMAIN MILESTONES.total THEN <<MILESTONES.total[total]>> ELSE <<>>)

\* check_milestones: the messages of the table for this streak and this total
check_milestones(streak, total) ==
    (IF streak \in DOMAIN MILESTONES.streak THEN <<MILESTONES.streak[streak]>> ELSE <<>>)
    \o (IF total \in DOMAIN MILESTONES.total THEN <<MILESTONES.total[total]>> ELSE <<>>)

\* what complete_handler shows: the failure message, or the result of
\* complete_challenge with the milestone messages for its streak and total
shown_result(r) ==
    IF r.success
    THEN [op |-> r.op, success |-> TRUE, message |-> r.message,
          streak |-> r.streak, total |-> r.total,
          coins_earned |-> r.coins_earned, total_coins |-> r.total_coins,
          milestone_messages |-> check_milestones(r.streak, r.total)]
    ELSE r

\* complete_handler: the "done" button; fault says where the store raises
\* inside complete_challenge (the handler catches what the method lets out),
\* fail_at where db.add_coins raises inside check_achievements (the handler
\* catches that exception and reports no new achievement)
complete(fault, fail_at) ==
    LET r == complete_challenge(user, history, date_today, fault)
    IN  /\ user' = IF r.result.success
                   THEN check_achievements(r.user, r.user, r.history, fail_at)
                   ELSE r.user
        /\ history' = r.history
        /\ result' = shown_result(r.result)
        /\ n_success' = IF r.result.success THEN n_success + 1 ELSE n_success
        /\ UNCHANGED <<wager_vars, calls, admin_vars>>
        /\ UNCHANGED <<minsk_today, server_tz, CATEGORIES, server_behind, recent, grants>>

complete_handler ==
    \E fault \in CompleteFaults, fail_at \in FailPoints : complete(fault, fail_at)

\* complete_handler when the store raises in the UPDATE of complete_challenge
\* or nowhere
complete_handler_rewarded == \E fault \in {"none", "update"} : complete(fault, NoFail)

\* check_achievements called once more with the snapshot of an earlier call:
\* the row as stored now, but with the earned list as it was when only its
\* first `stale` ids had been stored
stale_snapshot(u, stale) == [u EXCEPT !.achievements = SubSeq(@, 1, stale)]

check_achievements_again ==
    /\ user.exists
    /\ \E stale \in 0..Len(user.achievements) :
         LET u1 == check_achievements(user, stale_snapshot(user, stale), history, NoFail)
         IN  /\ user' = u1
             /\ result' = [op |-> "check_achievements", success |-> TRUE, message |-> "ok",
                           stale |-> stale,
                           new_achievements |->
                               SubSeq(u1.achievements, Len(user.achievements) + 1,
                                      Len(u1.achievements))]
    /\ UNCHANGED <<wager_vars, calls, admin_vars>>
    /\ UNCHANGED <<minsk_today, server_tz, CATEGORIES, server_behind, history, recent,
                   n_success, grants>>

\* buy_handler: the three shop buttons; dbfail says the store raises in the UPDATE
buy_call(item, dbfail) ==
    IF item = "buy_double"
    THEN buy_double_coins(user, date_today, Price(item), dbfail)
    ELSE buy_streak_freeze(user, date_today, Days(item), Price(item), dbfail)

buy(item, dbfail) ==
    /\ user' = buy_call(item, dbfail).user
    /\ result' = buy_call(item, dbfail).result
    /\ UNCHANGED <<wager_vars, calls, admin_vars>>
    /\ UNCHANGED <<minsk_today, server_tz, CATEGORIES, server_behind, history, recent,
                   n_success, grants>>

buy_handler == \E item \in ShopItems, dbfail \in BOOLEAN : buy(item, dbfail)

\* buy_handler with query.data = 'buy_double' alone
buy_double_button == \E dbfail \in BOOLEAN : buy("buy_double", dbfail)

\* a Database call up to its UPDATE: get_user, the early returns, the values
\* computed from the row read
db_get_user(t) ==
    /\ calls[t].pc = "idle"
    /\ \E op \in DbCalls :
         IF checks_pass(op, user, date_today)
         THEN /\ calls' = [calls EXCEPT ![t] = [pc |-> "update", op |-> op,
                                                 user |-> user, today |-> date_today]]
              /\ UNCHANGED result
         ELSE /\ result' = call_alone(op, user, history, date_today, FALSE).result
              /\ UNCHANGED calls
    /\ UNCHANGED <<wager_vars, admin_vars>>
    /\ UNCHANGED <<minsk_today, server_tz, CATEGORIES, server_behind, user, history, recent,
                   n_success, grants>>

\* the rest of the call: the UPDATE (and the INSERT INTO history) with commit,
\* or an exception with rollback
db_update(t) ==
    /\ calls[t].pc = "update"
    /\ user.exists
    /\ \E dbfail \in BOOLEAN :
         LET c == calls[t]
             stored == update_users(c.op, user, c.user, c.today)
         IN  IF dbfail
             THEN /\ result' = call_alone(c.op, c.user, history, c.today, TRUE).result
                  /\ UNCHANGED <<user, history, n_success>>
             ELSE /\ user' = stored
                  /\ history' = IF c.op = "complete_challenge"
                                THEN Append(history, history_row(c.user)) ELSE history
                  /\ n_success' = IF c.op = "complete_challenge"
                                  THEN n_success + 1 ELSE n_success
                  /\ result' = committed_result(c.op, stored, c.user, c.today)
    /\ calls' = [calls EXCEPT ![t] = IdleCall]
    /\ UNCHANGED <<wager_vars, admin_vars>>
    /\ UNCHANGED <<minsk_today, server_tz, CATEGORIES, server_behind, recent, grants>>

\* callers of the Database, each between two store accesses or outside a call
db_call == \E t \in Tasks : db_get_user(t) \/ db_update(t)

\* admin_message_handler with awaiting_give_coins: "USER_ID AMOUNT"
admin_give_coins ==
    \E amount \in GrantAmounts :
        /\ grants < MaxGrants
        /\ grants' = grants + 1
        /\ user' = add_coins(user, amount)
        /\ result' = NoResult
        /\ UNCHANGED <<wager_vars, calls, admin_vars>>
        /\ UNCHANGED <<minsk_today, server_tz, CATEGORIES, server_behind, history, recent, n_success>>

\* admin_message_handler with awaiting_delete_user: delete_user_data deletes
\* the user's reports and the users row, not the history rows.  The history
\* table references users(user_id): a store that enforces foreign keys
\* (PostgreSQL) refuses to delete a row that history rows refer to and nothing
\* is committed; one that does not (SQLite, no PRAGMA foreign_keys) deletes it.
\* MaxRecords bounds the run: no removal once the history has that many rows
delete_user_data(foreign_keys) ==
    IF foreign_keys /\ user.exists /\ Len(history) > 0
    THEN /\ result' = [op |-> "delete_user_data", success |-> FALSE,
                       message |-> "PersistenceFailure"]
         /\ UNCHANGED <<user, n_success, last_coinflip_date, moderation>>
    ELSE /\ user' = NoUser
         /\ n_success' = 0
         /\ result' = [op |-> "delete_user_data", success |-> TRUE, message |-> "ok"]
         /\ last_coinflip_date' = NoDate
         /\ moderation' = [NoModeration EXCEPT !.sent = moderation.sent]

admin_delete_user ==
    \E foreign_keys \in BOOLEAN :
        /\ user.exists
        /\ Len(history) < MaxRecords
        /\ delete_user_data(foreign_keys)
        /\ UNCHANGED <<awaiting, calls, coinflip_key, coinflip_bet, coinflip_in_progress, rounds>>
        /\ UNCHANGED <<minsk_today, server_tz, CATEGORIES, server_behind, history, recent,
                       grants>>

----------------------------------------------------------------------------
(* The administrator's panel and the reports *)

\* every sender passes the check
is_admin_anyone(user_id) == TRUE

\* is_admin: the sender is the configured administrator
is_admin(user_id) == user_id = ADMIN_ID

\* what a handler of the panel answers to its sender
panel_result(op, s, success, message) ==
    [op |-> op, sender |-> s, success |-> success, message |-> message]

\* a button of the panel that arms a pending action: nothing for a sender who
\* is not the administrator, else the key is stored in the sender's user_data
admin_arm(s, key, value) ==
    /\ IF is_admin(s)
       THEN /\ awaiting' = [awaiting EXCEPT ![s][key] = value]
            /\ result' = panel_result("admin_button", s, TRUE, "ok")
       ELSE /\ UNCHANGED awaiting
            /\ result' = panel_result("admin_button", s, FALSE, "not_admin")
    /\ UNCHANGED <<minsk_today, server_tz, CATEGORIES, server_behind, user, history, recent,
                   n_success, grants, moderation>>
    /\ UNCHANGED <<wager_vars, calls>>

admin_broadcast_all_handler == \E s \in Senders : admin_arm(s, "awaiting_broadcast", "all")

admin_broadcast_one_handler ==
    \E s \in Senders : admin_arm(s, "awaiting_broadcast", "one_waiting_id")

admin_broadcast_multiple_handler ==
    \E s \in Senders : admin_arm(s, "awaiting_broadcast", "multiple_waiting_ids")

admin_delete_menu_handler == \E s \in Senders : admin_arm(s, "awaiting_delete_user", TRUE)

admin_give_coins_handler == \E s \in Senders : admin_arm(s, "awaiting_give_coins", TRUE)

admin_reply_report_handler == \E s \in Senders : admin_arm(s, "awaiting_reply", TRUE)

admin_warn_report_handler == \E s \in Senders : admin_arm(s, "awaiting_warning", TRUE)

\* update_report_status: the UPDATE of the report row, if there is one
update_report_status(m, status) ==
    IF m.status = NoText THEN m ELSE [m EXCEPT !.status = status]

\* add_warning: warnings + 1 on the users row, if there is one
add_warning(m) == IF user.exists THEN [m EXCEPT !.warnings = @ + 1] ELSE m

\* the approve and reject buttons under a report
admin_decide(s, status) ==
    /\ IF is_admin(s)
       THEN /\ moderation' = update_report_status(moderation, status)
            /\ result' = panel_result("admin_button", s, TRUE, "ok")
       ELSE /\ UNCHANGED moderation
            /\ result' = panel_result("admin_button", s, FALSE, "not_admin")
    /\ UNCHANGED <<minsk_today, server_tz, CATEGORIES, server_behind, user, history, recent,
                   n_success, grants, awaiting>>
    /\ UNCHANGED <<wager_vars, calls>>

admin_approve_report_handler == \E s \in Senders : admin_decide(s, "approved")

admin_reject_report_handler == \E s \in Senders : admin_decide(s, "rejected")

\* /report of the user: refused to a banned user, over the daily limit or
\* within a minute of the last report; else the next message of the sender is
\* the report
report_command ==
    \E s \in {Owner}, allowed \in BOOLEAN :
        LET banned == s = Owner /\ user.exists /\ moderation.warnings >= BanAt
        IN  /\ IF banned \/ ~allowed
               THEN /\ UNCHANGED awaiting
                    /\ result' = panel_result("report", s, FALSE, "refused")
               ELSE /\ awaiting' = [awaiting EXCEPT ![s].awaiting_report = TRUE]
                    /\ result' = panel_result("report", s, TRUE, "ok")
            /\ UNCHANGED <<minsk_today, server_tz, CATEGORIES, server_behind, user, history,
                           recent, n_success, grants, moderation>>
            /\ UNCHANGED <<wager_vars, calls>>

\* admin_message_handler: a message that is not a command.  The report of a
\* sender who asked for one comes first; everything after it is for the
\* administrator only, one pending action per message in the order of the code
message_from(s) ==
    LET d == awaiting[s]
        banned == s = Owner /\ user.exists /\ moderation.warnings >= BanAt
        put(key, value) == [awaiting EXCEPT ![s][key] = value]
        same_row == UNCHANGED <<user, n_success, grants, last_coinflip_date>>
    IN
    /\ IF d.awaiting_report
       THEN \E accepted \in BOOLEAN :
               /\ awaiting' = put("awaiting_report", FALSE)
               /\ IF banned \/ ~accepted
                  THEN /\ UNCHANGED moderation
                       /\ result' = panel_result("report", s, FALSE, "refused")
                  ELSE /\ moderation' = [moderation EXCEPT !.status = "pending"]
                       /\ result' = panel_result("report", s, TRUE, "ok")
               /\ same_row
       ELSE IF ~is_admin(s)
       THEN /\ result' = panel_result("admin_message_handler", s, FALSE, "not_admin")
            /\ UNCHANGED <<awaiting, moderation>>
            /\ same_row
       ELSE IF d.awaiting_broadcast = "all"
       THEN /\ moderation.sent + moderation.warnings < MaxModeration
            /\ awaiting' = put("awaiting_broadcast", NoText)
            /\ moderation' = [moderation EXCEPT !.sent = @ + (IF user.exists THEN 1 ELSE 0)]
            /\ result' = panel_result("admin_message_handler", s, TRUE, "ok")
            /\ same_row
       ELSE IF d.awaiting_broadcast \in {"one_waiting_id", "multiple_waiting_ids"}
       THEN \E valid \in BOOLEAN :
               /\ awaiting' = IF ~valid THEN awaiting
                              ELSE IF d.awaiting_broadcast = "one_waiting_id"
                                   THEN put("awaiting_broadcast", "one_waiting_msg")
                                   ELSE put("awaiting_broadcast", "multiple_waiting_msg")
               /\ result' = panel_result("admin_message_handler", s, valid, "ok")
               /\ UNCHANGED moderation
               /\ same_row
       ELSE IF d.awaiting_broadcast \in {"one_waiting_msg", "multiple_waiting_msg"}
       THEN /\ moderation.sent + moderation.warnings < MaxModeration
            /\ awaiting' = put("awaiting_broadcast", NoText)
            /\ moderation' = [moderation EXCEPT !.sent = @ + 1]
            /\ result' = panel_result("admin_message_handler", s, TRUE, "ok")
            /\ same_row
       ELSE IF d.awaiting_delete_user
       THEN \E foreign_keys \in BOOLEAN :
               /\ awaiting' = put("awaiting_delete_user", FALSE)
               /\ delete_user_data(foreign_keys)
               /\ UNCHANGED grants
       ELSE IF d.awaiting_give_coins
       THEN \E amount \in GrantAmounts :
               /\ grants < MaxGrants
               /\ awaiting' = put("awaiting_give_coins", FALSE)
               /\ grants' = grants + 1
               /\ user' = add_coins(user, amount)
               /\ result' = panel_result("admin_message_handler", s, TRUE, "ok")
               /\ UNCHANGED <<n_success, last_coinflip_date, moderation>>
       ELSE IF d.awaiting_reply
       THEN /\ awaiting' = put("awaiting_reply", FALSE)
            /\ moderation' = update_report_status(moderation, "answered")
            /\ result' = panel_result("admin_message_handler", s, TRUE, "ok")
            /\ same_row
       ELSE IF d.awaiting_warning
       THEN /\ moderation.sent + moderation.warnings < MaxModeration
            /\ awaiting' = put("awaiting_warning", FALSE)
            /\ moderation' = update_report_status(add_warning(moderation), "warned")
            /\ result' = panel_result("admin_message_handler", s, TRUE, "ok")
            /\ same_row
       ELSE /\ result' = panel_result("admin_message_handler", s, TRUE, "ok")
            /\ UNCHANGED <<awaiting, moderation>>
            /\ same_row
    /\ UNCHANGED <<minsk_today, server_tz, CATEGORIES, server_behind, history, recent>>
    /\ UNCHANGED <<calls, coinflip_key, coinflip_bet, coinflip_in_progress, rounds>>

admin_message_handler == \E s \in Senders : message_from(s)

----------------------------------------------------------------------------
(* The clock *)

\* 00:00 in Minsk: the date turns and the cron job check_and_reset_streaks
\* runs, unless the process is down at that moment; last_day bounds the run
Midnight(last_day) ==
    \E job_runs \in BOOLEAN :
        /\ minsk_today < last_day
        /\ ~server_behind
        /\ minsk_today' = minsk_today + 1
        /\ server_behind' = (server_tz = "UTC")
        /\ user' = IF job_runs
                   THEN check_and_reset_streaks(user, minsk_today + 1)
                   ELSE user
        /\ result' = NoResult
        /\ UNCHANGED <<wager_vars, calls, admin_vars>>
        /\ UNCHANGED <<server_tz, CATEGORIES, history, recent, n_success, grants>>

MinskMidnight == Midnight(MaxDay)

\* the same midnight in a run long enough for a boost to reach its last day
\* and to expire
BoostMidnight == Midnight(BoostDay)

\* the same midnight in the runs of the wager game
WagerMidnight == Midnight(WagerDay)

\* 00:00 on the server: date.today() catches up with the Minsk date
ServerMidnight ==
    /\ server_behind
    /\ server_behind' = FALSE
    /\ result' = NoResult
    /\ UNCHANGED <<wager_vars, calls, admin_vars>>
    /\ UNCHANGED <<minsk_today, server_tz, CATEGORIES, user, history, recent, n_success, grants>>

----------------------------------------------------------------------------
(* The wager handlers *)

\* coinflip_menu_handler: reads the row and shows the bets; writes nothing
coinflip_menu_handler ==
    /\ result' = [op |-> "coinflip_menu", success |-> FALSE,
                  message |-> IF ~user.exists THEN "UserNotFound"
                              ELSE IF user_get_lastcoinflipdate = today_minsk
                                   THEN "AlreadyPlayedToday"
                              ELSE IF user.coins < 5 THEN "InsufficientFunds"
                              ELSE "ChooseBet"]
    /\ UNCHANGED <<minsk_today, server_tz, CATEGORIES, server_behind, user, history,
                   recent, n_success, grants>>
    /\ UNCHANGED <<wager_vars, calls, admin_vars>>

\* coinflip_bet_handler with bet = int(query.data.replace('coinflip_bet_', '')):
\* the row, the day's lock and the balance are looked at, the amount is not;
\* the bet is kept in user_data, no debit
bet_callback(bet) ==
    LET refused == IF ~user.exists THEN "UserNotFound"
                   ELSE IF user_get_lastcoinflipdate = today_minsk
                        THEN "AlreadyPlayedToday"
                   ELSE IF user.coins < bet THEN "InsufficientFunds"
                   ELSE "no"
    IN  /\ coinflip_bet' = IF refused = "no" THEN bet ELSE coinflip_bet
        /\ result' = [op |-> "coinflip_bet", success |-> refused = "no",
                      message |-> IF refused = "no" THEN "ChooseOutcome" ELSE refused]
        /\ UNCHANGED <<minsk_today, server_tz, CATEGORIES, server_behind, user,
                       history, recent, n_success, grants>>
        /\ UNCHANGED <<admin_vars, calls, last_coinflip_date, coinflip_key, coinflip_in_progress, rounds>>

\* coinflip_bet_handler on a press of one of the bot's own bet buttons
coinflip_bet_handler == \E bet \in Bets : bet_callback(bet)

\* coinflip_bet_handler on any callback data the pattern '^coinflip_bet_' lets
\* through and int() parses
coinflip_bet_callback == \E bet \in BetRequests : bet_callback(bet)

\* a cancel that also clears the day's lock
coinflip_cancel_handler_clears_lock ==
    /\ coinflip_bet' = NoBet
    /\ last_coinflip_date' = NoDate
    /\ result' = [op |-> "coinflip_cancel", success |-> TRUE, message |-> "ok"]
    /\ UNCHANGED <<minsk_today, server_tz, CATEGORIES, server_behind, user, history,
                   recent, n_success, grants>>
    /\ UNCHANGED <<admin_vars, calls, coinflip_key, coinflip_in_progress, rounds>>

\* coinflip_cancel_handler: drops the bet and shows the shop
coinflip_cancel_handler ==
    /\ coinflip_bet' = NoBet
    /\ result' = [op |-> "coinflip_cancel", success |-> TRUE, message |-> "ok"]
    /\ UNCHANGED <<minsk_today, server_tz, CATEGORIES, server_behind, user, history,
                   recent, n_success, grants>>
    /\ UNCHANGED <<admin_vars, calls, last_coinflip_date, coinflip_key, coinflip_in_progress, rounds>>

\* the marker is never consulted
already_rolling_unchecked(marker) == FALSE

\* user_id in _coinflip_in_progress
already_rolling(marker) == marker

\* the stored bet is never found missing
bet_missing_never(bet) == FALSE

\* bet = context.user_data.get('coinflip_bet'); bet is None
bet_missing(bet) == bet = NoBet

\* coinflip_choice_handler up to its first await: the in-progress check, the
\* bet held in user_data, the marker; ui_fails says edit_message_text raises
choice_enter(t) ==
    \E choice \in Choices, ui_fails \in BOOLEAN :
        /\ rounds[t].pc = "idle"
        /\ IF already_rolling(coinflip_in_progress)
           THEN /\ result' = [op |-> "coinflip_choice", success |-> FALSE,
                              message |-> "InProgress"]
                /\ UNCHANGED <<coinflip_in_progress, rounds>>
           ELSE IF bet_missing(coinflip_bet)
           THEN /\ result' = [op |-> "coinflip_choice", success |-> FALSE,
                              message |-> "BetNotFound"]
                /\ UNCHANGED <<coinflip_in_progress, rounds>>
           ELSE /\ coinflip_in_progress' = TRUE
                /\ rounds' = [rounds EXCEPT ![t] =
                      IF ui_fails
                      THEN LeavingRound
                      ELSE [pc |-> "start", bet |-> coinflip_bet, choice |-> choice,
                            dice_value |-> 0]]
                /\ result' = [op |-> "coinflip_choice", success |-> TRUE,
                              message |-> "Rolling"]
        /\ UNCHANGED <<minsk_today, server_tz, CATEGORIES, server_behind, user, history,
                       recent, n_success, grants>>
        /\ UNCHANGED <<admin_vars, calls, last_coinflip_date, coinflip_key, coinflip_bet>>

\* step 2: db.coinflip_start; a refusal is shown and the handler returns
choice_start(t) ==
    \E dbfail \in BOOLEAN :
        LET r == coinflip_start(user, last_coinflip_date, rounds[t].bet, date_today, dbfail)
        IN  /\ rounds[t].pc = "start"
            /\ last_coinflip_date' = r.lock
            /\ result' = r.result
            /\ rounds' = [rounds EXCEPT ![t] =
                            IF r.result.success
                            THEN [@ EXCEPT !.pc = "dice"]
                            ELSE LeavingRound]
            /\ UNCHANGED <<minsk_today, server_tz, CATEGORIES, server_behind, user,
                           history, recent, n_success, grants>>
            /\ UNCHANGED <<admin_vars, calls, coinflip_key, coinflip_bet, coinflip_in_progress>>

\* steps 3 and 4: send_dice and the 4 s sleep; send_fails says send_dice raises
choice_dice(t) ==
    \E dice_value \in DiceValues, send_fails \in BOOLEAN :
        /\ rounds[t].pc = "dice"
        /\ rounds' = [rounds EXCEPT ![t] =
              IF send_fails
              THEN LeavingRound
              ELSE [@ EXCEPT !.pc = "finish", !.dice_value = dice_value]]
        /\ result' = [op |-> "send_dice", success |-> ~send_fails,
                      message |-> IF send_fails THEN "TransportFailure" ELSE "ok"]
        /\ UNCHANGED <<minsk_today, server_tz, CATEGORIES, server_behind, user, history,
                       recent, n_success, grants>>
        /\ UNCHANGED <<admin_vars, calls, last_coinflip_date, coinflip_key, coinflip_bet, coinflip_in_progress>>

\* a failed settlement is tried again
round_after_finish_retry(round, success) ==
    IF success THEN LeavingRound ELSE round

\* whatever finish returned, the handler reports it and returns
round_after_finish(round, success) == LeavingRound

\* steps 5 to 7: the winner, db.coinflip_finish and, when it succeeded, the
\* message with the dice value, the outcome and the new balance
choice_finish(t) ==
    \E dbfail \in BOOLEAN :
        LET won == wins(rounds[t].choice, rounds[t].dice_value)
            r == coinflip_finish(user, rounds[t].bet, won, dbfail)
        IN  /\ rounds[t].pc = "finish"
            /\ user' = r.user
            /\ result' = IF r.result.success
                         THEN [op |-> "coinflip_finish", success |-> TRUE,
                               message |-> "ok", new_coins |-> r.result.new_coins,
                               choice |-> rounds[t].choice,
                               dice_value |-> rounds[t].dice_value, won |-> won]
                         ELSE r.result
            /\ rounds' = [rounds EXCEPT ![t] = round_after_finish(@, r.result.success)]
            /\ UNCHANGED <<minsk_today, server_tz, CATEGORIES, server_behind, history,
                           recent, n_success, grants>>
            /\ UNCHANGED <<admin_vars, calls, last_coinflip_date, coinflip_key, coinflip_bet,
                           coinflip_in_progress>>

\* the finally block: the marker and the bet are dropped
choice_finally(t) ==
    /\ rounds[t].pc = "finally"
    /\ coinflip_in_progress' = FALSE
    /\ coinflip_bet' = NoBet
    /\ rounds' = [rounds EXCEPT ![t] = IdleRound]
    /\ UNCHANGED <<minsk_today, server_tz, CATEGORIES, server_behind, user, history,
                   recent, result, n_success, grants>>
    /\ UNCHANGED <<admin_vars, calls, last_coinflip_date, coinflip_key>>

\* an invocation past its entry goes on: each await of the handler returns or
\* raises (the calls to Telegram are bounded by their timeouts, the sleep by
\* its 4 s)
choice_resumes ==
    \E t \in Tasks :
        \/ choice_start(t)
        \/ choice_dice(t)
        \/ choice_finish(t)
        \/ choice_finally(t)

coinflip_choice_handler ==
    \E t \in Tasks :
        \/ choice_enter(t)
        \/ choice_start(t)
        \/ choice_dice(t)
        \/ choice_finish(t)
        \/ choice_finally(t)

----------------------------------------------------------------------------
(* Specifications *)

\* the ledger: completions, the shop, the administrator's grants and the
\* midnight job.  category_handler writes current_challenge, current_category
\* and the anti-repeat window only, none of which these steps read except to
\* copy them into the history row; it runs in SpecAssign.  The store raises
\* in an UPDATE or nowhere; its other faults run in SpecFaults
Next ==
    \/ ensure_user
    \/ complete_handler_rewarded
    \/ buy_handler
    \/ admin_give_coins
    \/ MinskMidnight

Spec == Init /\ [][Next]_vars

\* the ledger on a server of either time zone, with both midnights
NextServer ==
    \/ ensure_user
    \/ complete_handler_rewarded
    \/ buy_handler
    \/ admin_give_coins
    \/ MinskMidnight
    \/ ServerMidnight

SpecServer == InitServer /\ [][NextServer]_vars

\* completions with the store raising at any of its calls: in get_user, in
\* the UPDATE, after the commit, in add_coins of check_achievements
NextFaults ==
    \/ ensure_user
    \/ complete_handler
    \/ admin_give_coins
    \/ MinskMidnight

SpecFaults == Init /\ [][NextFaults]_vars

\* the Database used by more than one caller at a time
NextInterleaved ==
    \/ ensure_user
    \/ admin_give_coins
    \/ db_call
    \/ WagerMidnight

SpecInterleaved == Init /\ [][NextInterleaved]_vars

\* assignments, completions whose evaluator ran to its end, and the evaluator
\* run again on the snapshot of an earlier call, over two categories
NextEvaluator ==
    \/ ensure_user
    \/ category_handler
    \/ complete_handler_rewarded
    \/ check_achievements_again
    \/ MinskMidnight

SpecEvaluator == InitAssign /\ [][NextEvaluator]_vars

\* assignments and completions over a catalog of two categories
NextAssign ==
    \/ ensure_user
    \/ category_handler
    \/ complete_handler_rewarded
    \/ MinskMidnight

SpecAssign == InitAssign /\ [][NextAssign]_vars

\* the ledger with the administrator's removal of a user
NextDelete ==
    \/ ensure_user
    \/ complete_handler_rewarded
    \/ admin_give_coins
    \/ admin_delete_user
    \/ MinskMidnight

SpecDelete == Init /\ [][NextDelete]_vars

\* the administrator's panel: its buttons and the messages that follow them,
\* pressed and sent by the administrator and by the user, and the reports
NextPanel ==
    \/ ensure_user
    \/ report_command
    \/ cancel_report_handler
    \/ admin_broadcast_all_handler
    \/ admin_broadcast_one_handler
    \/ admin_broadcast_multiple_handler
    \/ admin_delete_menu_handler
    \/ admin_give_coins_handler
    \/ admin_reply_report_handler
    \/ admin_warn_report_handler
    \/ admin_approve_report_handler
    \/ admin_reject_report_handler
    \/ admin_message_handler

SpecPanel == Init /\ [][NextPanel]_vars

\* the assignments of one day over a category of more challenges than the
\* window holds: both assigning buttons, the button that empties the user's
\* data, and the completion that ends the day's assignments
NextWindow ==
    \/ ensure_user
    \/ category_handler
    \/ another_challenge_handler
    \/ cancel_report_handler
    \/ complete_handler_rewarded

SpecWindow == InitWindow /\ [][NextWindow]_vars

\* the completions and the boost they pay for (50 coins by the fourth day), over
\* the days the boost lasts and the day after its last
NextBoost ==
    \/ ensure_user
    \/ complete_handler_rewarded
    \/ buy_double_button
    \/ BoostMidnight

SpecBoost == Init /\ [][NextBoost]_vars

\* the wager game over the turn of a day, beside the grants that fill the
\* balance
NextWager ==
    \/ ensure_user
    \/ admin_give_coins
    \/ WagerMidnight
    \/ coinflip_menu_handler
    \/ coinflip_bet_handler
    \/ coinflip_cancel_handler
    \/ coinflip_choice_handler

SpecWager == InitWager /\ [][NextWager]_vars

\* the wager game when the amount in the callback data is not one the menu
\* offered
NextWagerCallback ==
    \/ ensure_user
    \/ admin_give_coins
    \/ WagerMidnight
    \/ coinflip_bet_callback
    \/ coinflip_cancel_handler
    \/ coinflip_choice_handler

SpecWagerCallback == Init /\ [][NextWagerCallback]_vars

\* the wager game within one day, beside the shop that spends the balance
NextWagerShop ==
    \/ ensure_user
    \/ admin_give_coins
    \/ buy_double_button
    \/ coinflip_bet_handler
    \/ coinflip_choice_handler

SpecWagerShop == InitWager /\ [][NextWagerShop]_vars

\* the rounds of one day, with every invocation that is past its entry
\* running on to its end
NextRelease ==
    \/ ensure_user
    \/ admin_give_coins
    \/ coinflip_bet_handler
    \/ coinflip_choice_handler

SpecRelease == Init /\ [][NextRelease]_vars /\ WF_vars(choice_resumes)

----------------------------------------------------------------------------
(* Properties *)

\* the sum of the catalog rewards of the achievements in ids
RECURSIVE RewardsFrom(_, _)
RewardsFrom(i, ids) ==
    IF i > Len(ACHIEVEMENTS)
    THEN 0
    ELSE (IF ACHIEVEMENTS[i].id \in ids THEN ACHIEVEMENTS[i].reward ELSE 0)
         + RewardsFrom(i + 1, ids)

\* the step is a complete() call on an existing user that returned success
CompleteSucceeds ==
    /\ complete_handler
    /\ user.exists
    /\ result'.op = "complete_challenge"
    /\ result'.success

\* C1: a complete() call made when last_completed_date is today's date fails
\* and leaves the whole row (streak, longest_streak, total_completed, coins,
\* last_completed_date and the rest) and the history unchanged; the result it
\* returns, unless get_user raised before the check, is AlreadyCompletedToday.
C1_SameDayRejected ==
    [][(complete_handler /\ user.exists /\ user.last_completed_date = date_today)
        => /\ result'.op = "complete_challenge"
           /\ ~result'.success
           /\ result'.message \in {"AlreadyCompletedToday", "Raised"}
           /\ user' = user
           /\ history' = history]_vars

\* a second call on the day of a completion has just been rejected, with
\* challenges of both categories in the history
C1_Witness ==
    /\ result.op = "complete_challenge"
    /\ result.message = "AlreadyCompletedToday"
    /\ user.exists
    /\ user.last_completed_date = date_today
    /\ user.total_completed >= 2
    /\ Len(history) = user.total_completed
    /\ history[1].category = "mind"
    /\ history[Len(history)].category = "body"

\* C2: total_completed of the row equals the number of complete() calls on it
\* that returned success; a successful call adds exactly 1 and no other step
\* on the row changes it.
C2_TotalCountsSuccesses ==
    /\ [](user.exists => user.total_completed = n_success)
    /\ [][(user.exists /\ user'.exists)
            => user'.total_completed =
                 user.total_completed + (IF CompleteSucceeds THEN 1 ELSE 0)]_vars

\* C3: a successful complete() sets streak to 1 for a user who never
\* completed, to N+1 when the last completion was yesterday and streak was N,
\* and to 1 when the gap is more than one day and no freeze is active.
C3_StreakContinuationAndReset ==
    [][CompleteSucceeds
        => /\ (user.last_completed_date = NoDate) => user'.streak = 1
           /\ (user.last_completed_date = date_today - 1)
                => user'.streak = user.streak + 1
           /\ (/\ user.last_completed_date # NoDate
               /\ date_today - user.last_completed_date > 1
               /\ (user.streak_freeze_until = NoDate
                   \/ user.streak_freeze_until < date_today))
                => user'.streak = 1
           /\ result'.streak = user'.streak]_vars

\* completed on day 1, missed day 2 without a freeze, completed on day 3:
\* the streak starts again at 1
C3_Witness ==
    /\ result.op = "complete_challenge"
    /\ result.success
    /\ user.last_completed_date = 3
    /\ user.total_completed = 2
    /\ user.streak_freeze_until = NoDate
    /\ user.streak = 1
    /\ user.longest_streak = 1

\* C4: when the gap since last_completed_date is more than one day and
\* streak_freeze_until >= today, a successful complete() leaves streak at the
\* value it had before the call.
C4_FreezePreservesStreak ==
    [][(/\ CompleteSucceeds
        /\ user.last_completed_date # NoDate
        /\ date_today - user.last_completed_date > 1
        /\ user.streak_freeze_until # NoDate
        /\ user.streak_freeze_until >= date_today)
        => /\ user'.streak = user.streak
           /\ result'.streak = user.streak]_vars

\* completed on day 1, missed day 2, completed on day 3 under a freeze that
\* expires on day 3 itself (inclusive expiry)
C4_Witness ==
    /\ result.op = "complete_challenge"
    /\ result.success
    /\ user.last_completed_date = 3
    /\ user.total_completed = 2
    /\ user.longest_streak = 1
    /\ user.streak = 1
    /\ user.streak_freeze_until = 3

\* C5: longest_streak >= streak in every reachable state, and longest_streak
\* of a row never decreases.
C5_LongestStreakBounds ==
    /\ [](user.exists => user.longest_streak >= user.streak)
    /\ [][(user.exists /\ user'.exists)
            => user'.longest_streak >= user.longest_streak]_vars

\* the midnight job has reset the streak to 0 and longest_streak kept its
\* value, with a purchase and an achievement grant made on the way
C5_Witness ==
    /\ user.exists
    /\ user.streak = 0
    /\ user.longest_streak = 1
    /\ user.streak_freeze_until # NoDate
    /\ Len(user.achievements) >= 1

\* C6: the coin balance is >= 0 in every reachable state.
C6_BalanceNeverNegative == user.exists => user.coins >= 0

\* C7: a successful complete() credits 10 coins if double_coins_until >= today
\* and 5 otherwise: coins_earned is that reward, the balance complete() returns
\* is the balance before plus the reward, and the stored balance exceeds it by
\* no more than the rewards of the achievements the handler grants next.
C7_RewardDoubling ==
    [][CompleteSucceeds
        => LET reward == IF user.double_coins_until # NoDate
                            /\ user.double_coins_until >= date_today
                         THEN 10 ELSE 5
           IN  /\ result'.coins_earned = reward
               /\ result'.total_coins = user.coins + reward
               /\ user'.coins >= user.coins + reward
               /\ user'.coins <= user.coins + reward
                    + RewardsFrom(1, SeqToSet(user'.achievements)
                                       \ SeqToSet(user.achievements))]_vars

\* a completion on the last day of a boost (double_coins_until = today),
\* credited 10 coins
C7_Witness ==
    /\ result.op = "complete_challenge"
    /\ result.success
    /\ result.coins_earned = 10
    /\ user.exists
    /\ user.double_coins_until = date_today

\* C8: buy_streak_freeze and buy_double_coins called with coins < cost fail
\* with InsufficientFunds and leave the row (coins, streak_freeze_until,
\* double_coins_until) unchanged.
C8_PurchaseRejected ==
    [][\A item \in ShopItems, dbfail \in BOOLEAN :
        (buy(item, dbfail) /\ user.exists /\ user.coins < Price(item))
        => /\ ~result'.success
           /\ result'.message = "InsufficientFunds"
           /\ user' = user]_vars

\* a freeze refused to a user who holds 45 coins
C8_Witness ==
    /\ result.op = "buy_streak_freeze"
    /\ result.message = "InsufficientFunds"
    /\ user.exists
    /\ user.coins = 45

\* C9: a successful buy_streak_freeze(days) sets streak_freeze_until to
\* max(current streak_freeze_until, today) + days and a successful
\* buy_double_coins sets double_coins_until to max(current, today) + 7, an
\* absent expiry counting as today; the expiry never moves to an earlier date.
C9_StackingRule ==
    [][\A item \in ShopItems, dbfail \in BOOLEAN :
        (buy(item, dbfail) /\ user.exists /\ result'.success)
        => IF item = "buy_double"
           THEN /\ user'.double_coins_until =
                     Max(user.double_coins_until, date_today) + 7
                /\ user'.double_coins_until > user.double_coins_until
                /\ result'.double_until = user'.double_coins_until
           ELSE /\ user'.streak_freeze_until =
                     Max(user.streak_freeze_until, date_today) + Days(item)
                /\ user'.streak_freeze_until > user.streak_freeze_until
                /\ result'.freeze_until = user'.streak_freeze_until]_vars

\* a 1-day freeze bought on top of a 1-day freeze that is still active
C9_Witness ==
    /\ result.op = "buy_streak_freeze"
    /\ result.success
    /\ result.freeze_until = date_today + 2
    /\ user.streak_freeze_until = date_today + 2

\* C10: a purchase either returns success, debits exactly the cost and
\* extends its expiry field (leaving the other one alone), or returns failure
\* and changes nothing of the row.
C10_PurchaseAtomic ==
    [][\A item \in ShopItems, dbfail \in BOOLEAN :
        (buy(item, dbfail) /\ user.exists)
        => \/ /\ result'.success
              /\ user'.coins = user.coins - Price(item)
              /\ IF item = "buy_double"
                 THEN /\ user'.double_coins_until > user.double_coins_until
                      /\ user'.streak_freeze_until = user.streak_freeze_until
                 ELSE /\ user'.streak_freeze_until > user.streak_freeze_until
                      /\ user'.double_coins_until = user.double_coins_until
           \/ /\ ~result'.success
              /\ user' = user]_vars

\* a purchase the balance covered failed in the store and debited nothing
C10_Witness ==
    /\ result.op = "buy_streak_freeze"
    /\ result.message = "PersistenceFailure"
    /\ user.exists
    /\ user.coins = 100
    /\ user.streak_freeze_until = NoDate
    /\ grants = 1

\* C11: at most one wager round is started per user per calendar day: start
\* succeeds only when last_coinflip_date is not today and stamps it with
\* today; the stamp then stays for the rest of the day; and a resolve attempt
\* made while the stamp is today's (its entry and its start call) leaves the
\* balance and the stamp unchanged, is refused AlreadyPlayedToday by start
\* and never reaches the dice.
C11_OneRoundPerDay ==
    /\ [][\A t \in Tasks :
            (choice_start(t) /\ result'.success)
            => /\ last_coinflip_date # date_today
               /\ last_coinflip_date' = date_today]_vars
    /\ [][(last_coinflip_date = date_today /\ date_today' = date_today)
            => last_coinflip_date' = last_coinflip_date]_vars
    /\ [][\A t \in Tasks :
            ((choice_enter(t) \/ choice_start(t)) /\ last_coinflip_date = date_today)
            => /\ user' = user
               /\ last_coinflip_date' = last_coinflip_date
               /\ rounds'[t].pc \in {"idle", "start", "finally"}
               /\ choice_start(t)
                    => (~result'.success /\ result'.message = "AlreadyPlayedToday")]_vars

\* rounds were played on day 1 and on day 2, and one more attempt on day 2
\* has just been refused by start
C11_Witness ==
    /\ result.op = "coinflip_start"
    /\ result.message = "AlreadyPlayedToday"
    /\ minsk_today = 2
    /\ last_coinflip_date = 2
    /\ user.exists
    /\ user.coins \in {60, 90, 110, 140}

\* C12: start stamps last_coinflip_date with today only when the stamp is not
\* today's and the balance covers the bet, in the step that checks them and
\* before the dice is drawn; it refuses, changing nothing, otherwise.  A dice
\* is only ever drawn under a stamp.  Of the resolve requests issued while
\* one is under way, at most one is past its entry: the others are turned
\* away (InProgress) with the row, the stamp and the rounds unchanged.
C12_LockBeforeDice ==
    /\ [][\A t \in Tasks :
            (choice_start(t) /\ result'.success)
            => /\ last_coinflip_date # date_today
               /\ user.coins >= rounds[t].bet
               /\ last_coinflip_date' = date_today
               /\ rounds'[t].pc = "dice"
               /\ rounds'[t].dice_value = 0]_vars
    /\ [][\A t \in Tasks :
            (/\ choice_start(t)
             /\ (last_coinflip_date = date_today \/ user.coins < rounds[t].bet))
            => /\ ~result'.success
               /\ last_coinflip_date' = last_coinflip_date
               /\ user' = user]_vars
    /\ [](\A t \in Tasks :
            rounds[t].pc \in {"dice", "finish"} => last_coinflip_date # NoDate)
    /\ [](Cardinality({t \in Tasks : rounds[t].pc # "idle"}) <= 1)
    /\ [][\A t \in Tasks :
            (choice_enter(t) /\ \E t2 \in Tasks \ {t} : rounds[t2].pc # "idle")
            => /\ rounds' = rounds
               /\ user' = user
               /\ last_coinflip_date' = last_coinflip_date
               /\ result'.message = "InProgress"]_vars

\* a second request has just been turned away while the first, past start,
\* waits with its dice drawn
C12_Witness ==
    /\ result.op = "coinflip_choice"
    /\ result.message = "InProgress"
    /\ \E t \in Tasks : rounds[t].pc = "finish"
    /\ last_coinflip_date = date_today

\* start has refused a bet the balance no longer covers
C12_FundsRechecked ==
    /\ result.op = "coinflip_start"
    /\ result.message = "InsufficientFunds"
    /\ coinflip_bet # NoBet
    /\ user.coins < coinflip_bet

\* C13: a finish that succeeds leaves the balance at the balance before it
\* plus the bet if the round was won and minus the bet if it was lost, changes
\* nothing else of the row, and returns the stored balance as new_coins.
C13_Settlement ==
    [][\A t \in Tasks :
        (choice_finish(t) /\ result'.success)
        => LET high == rounds[t].choice = "coinflip_high"
               won == (high /\ rounds[t].dice_value > 3)
                      \/ (~high /\ rounds[t].dice_value <= 3)
               delta == IF won THEN rounds[t].bet ELSE 0 - rounds[t].bet
           IN  /\ user'.coins = user.coins + delta
               /\ user' = [user EXCEPT !.coins = user.coins + delta]
               /\ result'.new_coins = user'.coins
               /\ last_coinflip_date' = last_coinflip_date]_vars

\* a round of 20 lost after a purchase of 50 out of a grant of 100
C13_Witness ==
    /\ result.op = "coinflip_finish"
    /\ result.success
    /\ result.new_coins = 30
    /\ user.coins = 30
    /\ last_coinflip_date = date_today

\* C14: a round is won iff the prediction is high and the dice value is above
\* 3, or the prediction is low and the value is at most 3: every settled
\* round reports and pays accordingly; three of the six values win for each
\* prediction, and every value wins for exactly one of the two predictions.
C14_WinRule ==
    /\ [][\A t \in Tasks :
            (choice_finish(t) /\ result'.success)
            => LET high == rounds[t].choice = "coinflip_high"
                   v == rounds[t].dice_value
               IN  /\ v \in 1..6
                   /\ result'.won <=> ((high /\ v \in {4, 5, 6}) \/ (~high /\ v \in {1, 2, 3}))
                   /\ result'.won <=> user'.coins > user.coins]_vars
    /\ [](\A c \in Choices : Cardinality({v \in DiceValues : wins(c, v)}) = 3)
    /\ [](\A v \in DiceValues : Cardinality({c \in Choices : wins(c, v)}) = 1)

\* a round won on the boundary: the prediction was low and the dice showed 3
C14_Witness ==
    /\ result.op = "coinflip_finish"
    /\ result.success
    /\ result.choice = "coinflip_low"
    /\ result.dice_value = 3
    /\ result.won
    /\ user.coins = 105

\* C15: finish is only called under a stamp; when it fails, the row and the
\* stamp stay as they were and the invocation leaves without calling finish
\* again; on its way out it changes neither the row nor the stamp; and while
\* the stamp is today's no start succeeds.
C15_FailsClosed ==
    /\ [][\A t \in Tasks :
            (choice_finish(t) /\ ~result'.success)
            => /\ last_coinflip_date # NoDate
               /\ user' = user
               /\ last_coinflip_date' = last_coinflip_date
               /\ rounds'[t].pc = "finally"]_vars
    /\ [][\A t \in Tasks :
            rounds[t].pc = "finally"
            => /\ rounds'[t].pc \in {"finally", "idle"}
               /\ choice_finally(t)
                    => (user' = user /\ last_coinflip_date' = last_coinflip_date)]_vars
    /\ [][\A t \in Tasks :
            (choice_start(t) /\ last_coinflip_date = date_today)
            => (~result'.success /\ user' = user)]_vars

\* the settlement of a round has just failed: the grant of 100 is untouched
\* and the day is used up
C15_Witness ==
    /\ result.op = "coinflip_finish"
    /\ result.message = "PersistenceFailure"
    /\ last_coinflip_date = date_today
    /\ user.exists
    /\ user.coins = 100
    /\ \E t \in Tasks : rounds[t].pc = "finally"

\* C16: every round that has passed start goes on to call finish: an
\* invocation that waits for its dice under the stamp leaves that position
\* only towards finish, so the stamp is never left without a settlement
\* except by a failure of finish itself.
C16_StartedRoundsReachFinish ==
    [][\A t \in Tasks :
        (rounds[t].pc = "dice" /\ rounds'[t] # rounds[t])
        => rounds'[t].pc = "finish"]_vars


\* C17: an achievement id is stored at most once and its reward is credited
\* with it: a successful completion raises the balance by the completion
\* reward plus the rewards of exactly the achievements it added to the earned
\* set, so the coins credited for achievements are the rewards of that set.
C17_RewardCreditedOnce ==
    [][CompleteSucceeds
        => /\ Cardinality(SeqToSet(user'.achievements)) = Len(user'.achievements)
           /\ user'.coins = user.coins + result'.coins_earned
                + RewardsFrom(1, SeqToSet(user'.achievements)
                                   \ SeqToSet(user.achievements))]_vars


C20_AllOrNothing ==
    [][complete_handler
        => /\ (user' # user) <=> (history' # history)
           /\ ~result'.success => (user' = user /\ history' = history)
           /\ result'.message # "Raised"]_vars


\* C21: streak is 0 only for a user who never completed or who missed a day
\* that no freeze covered: a positive streak falls to 0 only when one of the
\* days since the last completion, all of them missed, lies after the expiry
\* of the freeze.
C21_ZeroStreakOnlyAfterUnprotectedMiss ==
    [][(user.exists /\ user'.exists /\ user.streak > 0 /\ user'.streak = 0)
        => /\ user.last_completed_date # NoDate
           /\ \E d \in (user.last_completed_date + 1)..(minsk_today' - 1) :
                ~is_active(user.streak_freeze_until, d)]_vars

\* C22: a freeze protects a missed day: with the last completion two days
\* back and a freeze that covered the day in between, the midnight job leaves
\* the streak alone and complete() returns a streak of at least the old one.
C22_FreezeProtectsMissedDay ==
    /\ [][(/\ minsk_today' = minsk_today + 1
           /\ user.exists
           /\ user.last_completed_date = minsk_today - 1
           /\ is_active(user.streak_freeze_until, minsk_today))
          => user'.streak = user.streak]_vars
    /\ [][(/\ CompleteSucceeds
           /\ user.last_completed_date = date_today - 2
           /\ is_active(user.streak_freeze_until, date_today - 1))
          => user'.streak >= user.streak]_vars


C24_OneToday == date_today = today_minsk


\* C25: a cancel drops the chosen bet and changes nothing that is stored (the
\* row, the day's lock) nor the round in progress; a round whose bet was
\* cancelled after its start is settled all the same, with the bet it was
\* entered with.
C25_Cancellation ==
    [][/\ coinflip_cancel_handler
          => /\ coinflip_bet' = NoBet
             /\ user' = user
             /\ last_coinflip_date' = last_coinflip_date
             /\ rounds' = rounds
             /\ coinflip_in_progress' = coinflip_in_progress
       /\ \A t \in Tasks :
            (choice_finish(t) /\ result'.success /\ coinflip_bet = NoBet)
            => /\ rounds[t].bet \in Bets
               /\ user'.coins - user.coins \in {rounds[t].bet, 0 - rounds[t].bet}]_vars

\* a round settled after a cancel that arrived between its start and its finish
C25_Witness ==
    /\ result.op = "coinflip_finish"
    /\ result.success
    /\ coinflip_bet = NoBet
    /\ last_coinflip_date = date_today
    /\ \E t \in Tasks : rounds[t].pc = "finally"


\* C26: from its entry to the end of its finally block a resolve holds the
\* in-progress marker; a resolve that arrives while the marker is held is
\* answered InProgress and leaves the row, the lock, the bet, the marker and
\* the round under way as they are, so no two resolves are under way at once.
C26_InProgressGuard ==
    /\ [](\A t \in Tasks : rounds[t].pc # "idle" => coinflip_in_progress)
    /\ [](\A t1, t2 \in Tasks :
            (rounds[t1].pc # "idle" /\ rounds[t2].pc # "idle") => t1 = t2)
    /\ [][\A t \in Tasks :
            (choice_enter(t) /\ coinflip_in_progress)
            => /\ result'.message = "InProgress"
               /\ rounds' = rounds
               /\ coinflip_in_progress'
               /\ coinflip_bet' = coinflip_bet
               /\ user' = user
               /\ last_coinflip_date' = last_coinflip_date]_vars

\* a second resolve turned away while the first has not reached start: the
\* day's lock is not set yet and the marker alone stands in the way
C26_Witness ==
    /\ result.op = "coinflip_choice"
    /\ result.message = "InProgress"
    /\ coinflip_in_progress
    /\ last_coinflip_date = NoDate
    /\ \E t \in Tasks : rounds[t].pc = "start"

\* C27: every bet held for a round, and every bet a round carries to start and
\* finish, is one of the menu {5, 10, 15, 20}; an amount outside it (zero,
\* negative, above 20) is never stored and never reaches start or finish
C27_BetFromMenu ==
    /\ coinflip_bet = NoBet \/ coinflip_bet \in BetMenu
    /\ \A t \in Tasks :
          rounds[t].pc \in {"start", "dice", "finish"} => rounds[t].bet \in BetMenu

\* C28: a prediction that finds no stored bet is answered BetNotFound and
\* starts no round, sets no lock and changes no balance; a bet is stored by
\* the bet handler only and a round that starts carries the stored bet; the
\* lock is stamped on the step from start to the dice, the dice value is drawn
\* on the step from the dice to finish, and the balance is settled from finish
\* only, with the lock stamped and the dice value drawn
C28_BetThenLockDiceSettle ==
    /\ [][\A t \in Tasks :
            (choice_enter(t) /\ ~coinflip_in_progress /\ coinflip_bet = NoBet)
              => /\ result'.message = "BetNotFound"
                 /\ rounds' = rounds
                 /\ user' = user
                 /\ last_coinflip_date' = last_coinflip_date
                 /\ ~coinflip_in_progress']_vars
    /\ [][(coinflip_bet' # coinflip_bet /\ coinflip_bet' # NoBet)
            => result'.op = "coinflip_bet" /\ result'.success]_vars
    /\ [][\A t \in Tasks :
            /\ (rounds[t].pc = "idle" /\ rounds'[t].pc = "start")
                  => coinflip_bet # NoBet /\ rounds'[t].bet = coinflip_bet
            /\ (rounds'[t].pc = "start") => rounds[t].pc \in {"idle", "start"}
            /\ (rounds[t].pc # "dice" /\ rounds'[t].pc = "dice")
                  => /\ rounds[t].pc = "start"
                     /\ last_coinflip_date' = date_today
                     /\ rounds'[t].dice_value \notin DiceValues
            /\ (rounds[t].pc # "finish" /\ rounds'[t].pc = "finish")
                  => /\ rounds[t].pc = "dice"
                     /\ rounds'[t].dice_value \in DiceValues
                     /\ user' = user]_vars
    /\ [][(last_coinflip_date' # last_coinflip_date)
            => \E t \in Tasks : rounds[t].pc = "start" /\ rounds'[t].pc = "dice"]_vars
    /\ [][(result'.op = "coinflip_finish" /\ user' # user)
            => \E t \in Tasks : /\ rounds[t].pc = "finish"
                                /\ rounds[t].dice_value \in DiceValues
                                /\ last_coinflip_date # NoDate]_vars

\* a prediction pressed again after the day's round consumed the bet
C28_Witness ==
    /\ result.op = "coinflip_choice"
    /\ result.message = "BetNotFound"
    /\ coinflip_bet = NoBet
    /\ last_coinflip_date = date_today
    /\ ~coinflip_in_progress

\* C29: an assignment in a category is not one of the challenges in the
\* category's window unless the window excludes the whole pool; the window
\* never holds more than 5 entries; and in a category of more than 5
\* challenges, which 5 exclusions cannot empty, the assignment is not the
\* pending challenge of that category, the one shown last
C29_AntiRepeatWindow ==
    /\ [][(category_handler \/ another_challenge_handler) =>
            \A c \in DOMAIN CATEGORIES :
              (recent'[c] # recent[c]) =>
                /\ user'.current_category = c
                /\ user'.current_challenge = recent'[c][Len(recent'[c])]
                /\ \/ user'.current_challenge \notin SeqToSet(recent[c])
                   \/ SeqToSet(Challenges(c)) \subseteq SeqToSet(recent[c])
                /\ (user.exists /\ user.current_category = c /\ Len(Challenges(c)) > 5)
                      => user'.current_challenge # user.current_challenge]_vars
    /\ [](\A c \in DOMAIN recent : Len(recent[c]) <= 5)

\* C30: on an existing row an assignment, by the category button or by the
\* "another challenge" button, changes current_challenge and current_category
\* and nothing else of the row (last_completed_date, streak, longest_streak,
\* total_completed, coins and the rest stay) and leaves the history as it is;
\* a complete() call, successful or not, leaves the pending current_challenge
\* and current_category in the row
C30_AssignWritesPendingOnly ==
    /\ [][((category_handler \/ another_challenge_handler) /\ user.exists)
            => /\ user' = [user EXCEPT !.current_challenge = user'.current_challenge,
                                       !.current_category = user'.current_category]
               /\ history' = history]_vars
    /\ [][(complete_handler /\ user.exists)
            => /\ user'.current_challenge = user.current_challenge
               /\ user'.current_category = user.current_category]_vars

\* a challenge assigned on the day after a completion, to a row that carries a
\* streak, coins and a history: the pending challenge is not the one completed
C30_Witness ==
    /\ user.exists
    /\ user.streak > 0
    /\ user.coins > 0
    /\ user.total_completed > 0
    /\ user.last_completed_date = today_minsk - 1
    /\ Len(history) > 0
    /\ user.current_challenge # NoText
    /\ user.current_challenge # history[Len(history)].challenge

\* the condition of catalog entry a on the row u and the history h
ConditionHolds(a, u, h) ==
    \/ a.condition = "streak" /\ u.streak >= a.value
    \/ a.condition = "total_completed" /\ u.total_completed >= a.value
    \/ a.condition = "all_categories"
          /\ Cardinality({h[i].category : i \in 1..Len(h)}) >= a.value
    \/ a.condition = "category_"
          /\ Cardinality({i \in 1..Len(h) : h[i].category = a.category}) >= a.value

\* C31: a successful completion adds a catalog achievement to the earned list
\* iff it was not earned before and its condition holds on the row and the
\* history as the completion left them: streak >= N, total_completed >= N,
\* distinct categories in the history >= N, completions in category X >= N
C31_GrantedIffConditionHolds ==
    [][CompleteSucceeds =>
        \A i \in 1..Len(ACHIEVEMENTS) :
           (ACHIEVEMENTS[i].id \in SeqToSet(user'.achievements))
             <=> \/ ACHIEVEMENTS[i].id \in SeqToSet(user.achievements)
                 \/ ConditionHolds(ACHIEVEMENTS[i], user', history')]_vars

\* C32: on the snapshot a successful completion leaves, the evaluator run
\* over the catalog in any two orders ends with the same earned set and the
\* same balance, so the same newly earned achievements and the same total
\* reward; the catalog's own order is the one the completion ran
C32_OrderIndependent ==
    [][CompleteSucceeds =>
        LET snap == complete_challenge(user, history, date_today, "none").user
        IN  /\ \E fail_at \in FailPoints :
                  user' = grant_in_order([i \in 1..Len(ACHIEVEMENTS) |-> i], 1,
                                         snap, snap, history', fail_at)
            /\ \A fail_at \in FailPoints : \A o1, o2 \in CatalogOrders :
                  LET u1 == grant_in_order(o1, 1, snap, snap, history', fail_at)
                      u2 == grant_in_order(o2, 1, snap, snap, history', fail_at)
                  IN  /\ SeqToSet(u1.achievements) = SeqToSet(u2.achievements)
                      /\ u1.coins = u2.coins]_vars

\* C33: the result of a successful completion holds the streak message iff
\* the new streak is a key of the streak table and the total message iff the
\* new total_completed is a key of the total table, and nothing else; the row
\* is the one complete_challenge wrote, changed by the achievement grants only
\* (earned list and coins), and the history has the one new record
C33_MilestoneMessages ==
    [][CompleteSucceeds =>
        LET snap == complete_challenge(user, history, date_today, "none").user
            msgs == SeqToSet(result'.milestone_messages)
        IN  /\ \A n \in DOMAIN MILESTONES.streak :
                  MILESTONES.streak[n] \in msgs <=> user'.streak = n
            /\ \A n \in DOMAIN MILESTONES.total :
                  MILESTONES.total[n] \in msgs <=> user'.total_completed = n
            /\ Len(result'.milestone_messages) = Cardinality(msgs)
            /\ msgs \subseteq {MILESTONES.streak[n] : n \in DOMAIN MILESTONES.streak}
                             \cup {MILESTONES.total[n] : n \in DOMAIN MILESTONES.total}
            /\ [user' EXCEPT !.coins = 0, !.achievements = <<>>]
                  = [snap EXCEPT !.coins = 0, !.achievements = <<>>]
            /\ user'.coins >= snap.coins
            /\ user'.coins <= snap.coins
                  + RewardsFrom(1, SeqToSet(user'.achievements)
                                     \ SeqToSet(user.achievements))
            /\ history' = Append(history, history_row(user))]_vars

\* a completion that brought the streak to its milestone 2 while the total
\* is short of its own: the streak message alone
C33_Witness ==
    /\ result.op = "complete_challenge"
    /\ result.success
    /\ result.streak = 2
    /\ result.total = 2
    /\ result.milestone_messages = <<"streak_milestone_2">>

\* C34: the row a successful complete() leaves has streak >= 1 and
\* last_completed_date = today, whatever the row was before
C34_StreakAtLeastOneAfterCompletion ==
    [][CompleteSucceeds
        => /\ user'.streak >= 1
           /\ user'.last_completed_date = date_today]_vars

C36_MarkerReleased ==
    /\ [](coinflip_in_progress => \E t \in Tasks : rounds[t].pc # "idle")
    /\ [][\A t \in Tasks :
            /\ (rounds[t].pc # "idle" /\ rounds'[t].pc = "idle")
                  => /\ rounds[t].pc = "finally"
                     /\ ~coinflip_in_progress'
                     /\ coinflip_bet' = NoBet
            /\ (rounds[t].pc = "start" /\ rounds'[t].pc # "start")
                  => rounds'[t].pc \in {"dice", "finally"}
            /\ (rounds[t].pc = "dice" /\ rounds'[t].pc # "dice")
                  => rounds'[t].pc \in {"finish", "finally"}
            /\ (rounds[t].pc = "finish" /\ rounds'[t].pc # "finish")
                  => rounds'[t].pc = "finally"]_vars
    /\ (coinflip_in_progress ~> (~coinflip_in_progress /\ coinflip_bet = NoBet))

\* the marker has been dropped after a round that start refused
C36_Witness ==
    /\ ~coinflip_in_progress
    /\ coinflip_bet = NoBet
    /\ result.op = "coinflip_start"
    /\ ~result.success
    /\ \A t \in Tasks : rounds[t].pc = "idle"

\* C37: in every state the total_completed of a user who has a row equals the
\* number of the user's history records
C37_TotalEqualsHistory ==
    user.exists => user.total_completed = Len(history)

\* C38: the history record a successful complete() appends for a user who has
\* been shown an assignment carries a category of the catalog and a challenge
\* of that category, so the record adds a category of the catalog to those
\* counted for the achievements
C38_RecordsCarryAssignment ==
    [][(CompleteSucceeds /\ \E c \in DOMAIN recent : recent[c] # <<>>)
        => /\ Len(history') = Len(history) + 1
           /\ history'[Len(history')].category \in DOMAIN CATEGORIES
           /\ history'[Len(history')].challenge
                 \in SeqToSet(Challenges(history'[Len(history')].category))]_vars

\* C40: user creation is idempotent.  The registration decorator on a user id
\* without a row creates a row with streak 0, longest streak 0, total 0, no
\* coins, no completion date and no achievements; on a user id that has a
\* row it leaves every field of the row as it was
C40_AddUserIdempotent ==
    [][ensure_user =>
         IF user.exists
         THEN user' = user
         ELSE /\ user'.exists
              /\ user'.streak = 0 /\ user'.longest_streak = 0
              /\ user'.total_completed = 0 /\ user'.coins = 0
              /\ user'.last_completed_date = NoDate
              /\ user'.achievements = <<>>]_vars

\* a row created again after a removal: the history rows of the earlier row
\* are still there, the new row starts from the defaults
C40_Witness ==
    /\ user.exists /\ result = NoResult /\ Len(history) > 0
    /\ user.total_completed = 0 /\ user.coins = 0 /\ user.achievements = <<>>

\* a step that grants coins, removes the user, adds a warning, sets a report
\* to a status only the panel sets, or sends a broadcast
AdminMutation ==
    \/ grants' # grants
    \/ user.exists /\ ~user'.exists
    \/ moderation'.warnings > moderation.warnings
    \/ moderation'.sent > moderation.sent
    \/ /\ moderation'.status # moderation.status
       /\ moderation'.status \in {"approved", "rejected", "answered", "warned"}

\* C39: no interaction of a sender who is not the administrator causes an
\* admin mutation.  No pending admin action is ever armed in the user_data
\* of such a sender, and every step that grants coins, removes a user, adds a
\* warning, changes a report's status or broadcasts is a message or a button
\* of the administrator
C39_AdminGate ==
    /\ [](\A s \in Senders \ {ADMIN_ID} :
             awaiting[s] = [NoAwaiting EXCEPT !.awaiting_report = awaiting[s].awaiting_report])
    /\ [][AdminMutation =>
             /\ result'.op = "delete_user_data" \/ result'.sender = ADMIN_ID
             /\ \/ message_from(ADMIN_ID)
                \/ admin_decide(ADMIN_ID, "approved")
                \/ admin_decide(ADMIN_ID, "rejected")]_vars

\* the administrator has armed a coin grant and a removal and the user, who
\* has a row, has sent a message: it was turned away, nothing was granted,
\* the row is there, and the administrator's pending actions are still armed
C39_Witness ==
    /\ result = panel_result("admin_message_handler", Owner, FALSE, "not_admin")
    /\ awaiting[ADMIN_ID].awaiting_give_coins
    /\ awaiting[ADMIN_ID].awaiting_delete_user
    /\ user.exists /\ grants = 0 /\ user.coins = 0

====
